---- MODULE Spec2Model ----
(***************************************************************************)
(* Differential-drive robot (robot.py) driving a virtual camera            *)
(* (camera.py).                                                            *)
(*                                                                         *)
(* Numbers.  Python floats are modelled as exact reals of the field        *)
(* Q(sqrt 3): the triple <<a, b, d>> is (a + b*sqrt(3)) / d with d > 0 and *)
(* gcd(a, b, d) = 1.  Headings are integers counting units of pi/6, so the *)
(* constructor's heading pi/3 is 2 and math.cos / math.sin are exact.      *)
(* Floating-point rounding is not modelled.                                *)
(*                                                                         *)
(* Images.  A pygame surface is modelled by what it was made from; what    *)
(* cv2.kmeans, cv2.inRange and cv2.findContours find in a view depends on  *)
(* the externally supplied world, so the contour list of a view is an      *)
(* input of the operation that renders the view.                           *)
(*                                                                         *)
(* Arrays.  numpy arrays are objects: `heap` maps an object id to the      *)
(* array's dtype and rows, and obstacle_loc fields hold ids (0 is None).   *)
(*                                                                         *)
(* Evaluation.  CHOOSE r \in {e : a \in {x}} : TRUE is e with x for a, the  *)
(* operand x being evaluated once; it is the model's local assignment.     *)
(***************************************************************************)
EXTENDS Integers, Sequences, FiniteSets, TLC

VARIABLES robot, camera, heap, lastOp, result, trace, log, nsteps, ncalls

vars == <<robot, camera, heap, lastOp, result, trace, log, nsteps, ncalls>>

(***************************************************************************)
(* Bounds                                                                  *)
(***************************************************************************)
\* operations (steps and direct camera calls) in one run
MaxOps == 2
MaxVel == 3

(***************************************************************************)
(* Exact arithmetic in Q(sqrt 3)                                           *)
(***************************************************************************)
Abs(n) == IF n < 0 THEN -n ELSE n

RECURSIVE GCD(_, _)
GCD(m, n) ==
    IF n = 0 THEN m ELSE CHOOSE r \in {GCD(n, k) : k \in {m % n}} : TRUE

Norm(a, b, d) ==
    CHOOSE r \in
        { CHOOSE t \in { <<(s * p) \div g, (s * q) \div g, (s * k) \div g>> :
                           g \in {GCD(GCD(Abs(p), Abs(q)), Abs(k))},
                           s \in {IF k < 0 THEN -1 ELSE 1} } : TRUE :
          p \in {a}, q \in {b}, k \in {d} } : TRUE

Zero == <<0, 0, 1>>
Num(n) == <<n, 0, 1>>
Frac(n, d) == Norm(n, 0, d)

\* over the least common denominator
Add(x, y) ==
    CHOOSE r \in
        { CHOOSE t \in { Norm(a[1] * (b[3] \div g) + b[1] * (a[3] \div g),
                              a[2] * (b[3] \div g) + b[2] * (a[3] \div g),
                              a[3] * (b[3] \div g)) :
                           g \in {GCD(a[3], b[3])} } : TRUE :
          a \in {x}, b \in {y} } : TRUE

Neg(x) == CHOOSE r \in { <<-a[1], -a[2], a[3]>> : a \in {x} } : TRUE

Sub(x, y) == Add(x, Neg(y))

\* each numerator is first reduced against the other denominator
Mul(x, y) ==
    CHOOSE r \in
        { CHOOSE t \in { Norm((a[1] \div g) * (b[1] \div k) + 3 * (a[2] \div g) * (b[2] \div k),
                              (a[1] \div g) * (b[2] \div k) + (a[2] \div g) * (b[1] \div k),
                              (a[3] \div k) * (b[3] \div g)) :
                           g \in {GCD(GCD(Abs(a[1]), Abs(a[2])), b[3])},
                           k \in {GCD(GCD(Abs(b[1]), Abs(b[2])), a[3])} } : TRUE :
          a \in {x}, b \in {y} } : TRUE

\* 1 / (a + b r) = (a - b r) / (a^2 - 3 b^2); only applied to y # Zero
Div(x, y) ==
    CHOOSE r \in
        { Mul(x, Norm(b[1] * b[3], -(b[2] * b[3]), b[1] * b[1] - 3 * b[2] * b[2])) :
          b \in {y} } : TRUE

\* sign of a + b*sqrt(3), decided exactly by comparing squares
Sign(x) ==
    CHOOSE r \in
        { IF a = 0 /\ b = 0 THEN 0
          ELSE IF a >= 0 /\ b >= 0 THEN 1
          ELSE IF a <= 0 /\ b <= 0 THEN -1
          ELSE IF a > 0 THEN (IF a * a > 3 * b * b THEN 1 ELSE -1)
          ELSE (IF 3 * b * b > a * a THEN 1 ELSE -1) :
          a \in {x[1]}, b \in {x[2]} } : TRUE

Less(x, y) == Sign(Sub(x, y)) < 0
IsInteger(x) == x[2] = 0 /\ x[3] = 1

\* math.cos and math.sin at k * pi/6
Cos(k) ==
    LET m == k % 12
    IN  CASE m = 0 -> <<1, 0, 1>>
          [] m \in {1, 11} -> <<0, 1, 2>>
          [] m \in {2, 10} -> <<1, 0, 2>>
          [] m \in {3, 9} -> <<0, 0, 1>>
          [] m \in {4, 8} -> <<-1, 0, 2>>
          [] m \in {5, 7} -> <<0, -1, 2>>
          [] m = 6 -> <<-1, 0, 1>>

Sin(k) == Cos(k - 3)

(***************************************************************************)
(* Robot kinematics (robot.py)                                             *)
(***************************************************************************)
wheel_diameter == Frac(2, 10)
track_width == Frac(3, 10)

\* A time step is dt.s seconds plus dt.u times pi/4 seconds.
TimeStep(s, u) == [s |-> s, u |-> u]
DoubleStep(dt) == [s |-> Mul(dt.s, Num(2)), u |-> 2 * dt.u]
DefaultTimeStep == TimeStep(Frac(5, 100), 0)

\* omega * dt in units of pi/6, for dt a multiple of pi/4 seconds:
\* omega * u * (pi/4) = (omega * u * 3/2) * (pi/6)
TurnAngle(omega, dt) == Mul(omega, Frac(3 * dt.u, 2))

\* the steps whose trigonometric arguments lie on the pi/6 lattice and whose
\* displacement is a number of Q(sqrt 3)
OnLattice(vel, dt) ==
    LET omega == Div(Sub(Mul(Num(vel[2]), wheel_diameter),
                         Mul(Num(vel[1]), wheel_diameter)), track_width)
    IN  IF omega = Zero THEN dt.u = 0
        ELSE dt.s = Zero /\ IsInteger(TurnAngle(omega, dt))

GoesStraightEqualLeft(omega, linear_vel_l, linear_vel_r) == linear_vel_l = Zero

GoesStraight(omega, linear_vel_l, linear_vel_r) == omega = Zero

StraightPoseSwapped(pose, linear_vel_l, dt) ==
    CHOOSE r \in
        { <<Add(pose[1], Mul(d, Sin(pose[3]))), Add(pose[2], Mul(d, Cos(pose[3]))),
            pose[3]>> :
          d \in {Mul(linear_vel_l, dt.s)} } : TRUE

StraightPose(pose, linear_vel_l, dt) ==
    CHOOSE r \in
        { LET cur_x == pose[1]
              cur_y == pose[2]
              cur_theta == pose[3]
              new_x == Add(cur_x, Mul(d, Cos(cur_theta)))
              new_y == Add(cur_y, Mul(d, Sin(cur_theta)))
              new_theta == cur_theta
          IN  <<new_x, new_y, new_theta>> :
          d \in {Mul(linear_vel_l, dt.s)} } : TRUE

\* the rotation by omega * dt about (ICC_x, ICC_y) of lines 74-82
RotateAbout(pose, ICC_x, ICC_y, phi) ==
    CHOOSE r \in
        { <<Add(Sub(Mul(Cos(phi), dx), Mul(Sin(phi), dy)), ICC_x),
            Add(Add(Mul(Sin(phi), dx), Mul(Cos(phi), dy)), ICC_y),
            pose[3] + phi>> :
          dx \in {Sub(pose[1], ICC_x)}, dy \in {Sub(pose[2], ICC_y)} } : TRUE

\* the centre of curvature taken with sine and cosine exchanged
ArcPoseSwappedICC(pose, linear_vel_l, linear_vel_r, omega, dt) ==
    CHOOSE r \in
        { CHOOSE t \in
            { RotateAbout(pose, ICC_x, ICC_y, TurnAngle(omega, dt)[1]) :
              ICC_x \in {Sub(pose[1], Mul(ICC_R, Cos(pose[3])))},
              ICC_y \in {Add(pose[2], Mul(ICC_R, Sin(pose[3])))} } : TRUE :
          ICC_R \in {Mul(Div(track_width, Num(2)),
                         Div(Add(linear_vel_r, linear_vel_l),
                             Sub(linear_vel_r, linear_vel_l)))} } : TRUE

ArcPose(pose, linear_vel_l, linear_vel_r, omega, dt) ==
    CHOOSE r \in
        { CHOOSE t \in
            { RotateAbout(pose, ICC_x, ICC_y, TurnAngle(omega, dt)[1]) :
              ICC_x \in {Sub(pose[1], Mul(ICC_R, Sin(pose[3])))},
              ICC_y \in {Add(pose[2], Mul(ICC_R, Cos(pose[3])))} } : TRUE :
          ICC_R \in {Mul(Div(track_width, Num(2)),
                         Div(Add(linear_vel_r, linear_vel_l),
                             Sub(linear_vel_r, linear_vel_l)))} } : TRUE

\* lines 41-85 of Robot.step: the new pose, or the exception a float
\* division by zero raises
Kinematics(pose, vel, dt) ==
    CHOOSE r \in
        { CHOOSE t \in
            { IF GoesStraight(omega, linear_vel_l, linear_vel_r)
              THEN [err |-> "ok", pose |-> StraightPose(pose, linear_vel_l, dt)]
              ELSE IF Sub(linear_vel_r, linear_vel_l) = Zero
              THEN [err |-> "ZeroDivisionError", pose |-> pose]
              ELSE [err |-> "ok",
                    pose |-> ArcPose(pose, linear_vel_l, linear_vel_r, omega, dt)] :
              omega \in {Div(Sub(linear_vel_r, linear_vel_l), track_width)} } : TRUE :
          linear_vel_l \in {Mul(Num(vel[1]), wheel_diameter)},
          linear_vel_r \in {Mul(Num(vel[2]), wheel_diameter)} } : TRUE

(***************************************************************************)
(* World (external) and Camera (camera.py)                                 *)
(***************************************************************************)
Obstacle(surface, surf_pos) == [surface |-> surface, surf_pos |-> surf_pos]

World(obstacles) ==
    [ground |-> "ground", ground_pos |-> <<0, 0>>, obstacles |-> obstacles]

\* pygame.Surface.blit: the canvas is the ordered list of what was painted
\* on it, later entries drawn over earlier ones
Blit(surface, source, dest) ==
    [surface EXCEPT !.blits = Append(@, <<source, dest>>)]

RECURSIVE BlitAll(_, _)
BlitAll(surface, obstacles) ==
    IF obstacles = <<>> THEN surface
    ELSE BlitAll(Blit(surface, Head(obstacles).surface, Head(obstacles).surf_pos),
                 Tail(obstacles))

NewSurface(w, h) == [size |-> <<w, h>>, blits |-> <<>>]

\* an image: a Surface or an ndarray, the crop of the canvas it shows, and
\* the contours its two-colour clustering exhibits
Image(type, clustered, left, top, theta, cnts) ==
    [type |-> type, clustered |-> clustered, left |-> left, top |-> top,
     theta |-> theta, cnts |-> cnts]

BlankView == Image("Surface", FALSE, Zero, Zero, 0, <<>>)

CameraInit(world) ==
    LET display == BlitAll(Blit(NewSurface(3570, 2500), world.ground, world.ground_pos),
                           world.obstacles)
    IN  [world |-> world,
         box_view |-> 400,
         display |-> display,
         camera_view |-> BlankView,
         detects_obstacles |-> FALSE,
         obstacle_loc |-> 0,
         obstacle_center |-> <<>>]

\* Surface.subsurface accepts a rectangle, truncated to integers, that lies
\* inside the parent surface
InsideSurface(surface, left, top, w, h) ==
    /\ Less(Num(-1), left)
    /\ Less(Num(-1), top)
    /\ Less(left, Num(surface.size[1] - w + 1))
    /\ Less(top, Num(surface.size[2] - h + 1))

\* get_raw_view: `scene` is what the canvas shows in the cropped window
GetRawView(cam, pose, scene) ==
    CHOOSE r \in
        { IF InsideSurface(cam.display, left, top, (3 * cam.box_view) \div 2,
                           (3 * cam.box_view) \div 2)
          THEN [err |-> "ok", img |-> Image("Surface", FALSE, left, top, pose[3], scene)]
          ELSE [err |-> "ValueError", img |-> BlankView] :
          left \in { LET robot_x == Mul(pose[1], Num(200))
                         view_x_center ==
                             Add(robot_x, Mul(Num(100 + cam.box_view \div 2), Cos(pose[3])))
                     IN  Sub(view_x_center, Num((3 * cam.box_view) \div 4)) },
          top \in { LET robot_y == Sub(Num(2500), Mul(pose[2], Num(200)))
                        view_y_center ==
                            Sub(robot_y, Mul(Num(100 + cam.box_view \div 2), Sin(pose[3])))
                    IN  Sub(view_y_center, Num((3 * cam.box_view) \div 4)) } } : TRUE

IntoArray(surface) == [surface EXCEPT !.type = "ndarray"]

IntoColorMask(img) == [img EXCEPT !.clustered = TRUE]

\* the clustered image painted onto the canvas as well
IntoSurfaceOnDisplay(cam, array) ==
    [cam EXCEPT !.camera_view = [array EXCEPT !.type = "Surface"],
                !.display = Blit(@, "camera_view", <<0, 0>>)]

IntoSurface(cam, array) ==
    [cam EXCEPT !.camera_view = [array EXCEPT !.type = "Surface"]]

\* cv2 contours are n x 1 x 2 integer arrays
RECURSIVE Cross2(_, _)
Cross2(c, i) ==
    IF i > Len(c) THEN 0
    ELSE LET p == c[i][1]
             q == c[(i % Len(c)) + 1][1]
         IN  (p[1] * q[2] - q[1] * p[2]) + Cross2(c, i + 1)

\* twice cv2.contourArea (the area may be a half-integer)
ContourArea2(c) == Abs(Cross2(c, 1))

RECURSIVE Moment(_, _, _)
Moment(c, k, i) ==
    IF i > Len(c) THEN 0
    ELSE LET p == c[i][1]
             q == c[(i % Len(c)) + 1][1]
         IN  (p[k] + q[k]) * (p[1] * q[2] - q[1] * p[2]) + Moment(c, k, i + 1)

\* int(M['m10'] / M['m00']) for k = 1, int(M['m01'] / M['m00']) for k = 2
Centroid(c, k) == Abs(Moment(c, k, 1)) \div (3 * Abs(Cross2(c, 1)))

QualifiesInclusive(c) == 40000 >= ContourArea2(c) /\ ContourArea2(c) >= 2000

\* 20000 > area > 1000
Qualifies(c) == 40000 > ContourArea2(c) /\ ContourArea2(c) > 2000

RECURSIVE FindColor(_)
FindColor(cnts) ==
    IF cnts = <<>> THEN <<>>
    ELSE IF Qualifies(Head(cnts))
         THEN <<Head(cnts), Centroid(Head(cnts), 1), Centroid(Head(cnts), 2)>>
         ELSE FindColor(Tail(cnts))

\* np.reshape(c, (-1, 2))
Reshape(c) == [i \in 1..Len(c) |-> <<Num(c[i][1][1]), Num(c[i][1][2])>>]

NdArray(dtype, rows) == [dtype |-> dtype, rows |-> rows]

\* a new object: the least id not in use
Alloc(h) == CHOOSE i \in 1..(Cardinality(DOMAIN h) + 1) : i \notin DOMAIN h

Store(h, id, array) == [i \in DOMAIN h \cup {id} |-> IF i = id THEN array ELSE h[i]]

NoWrites == [written |-> {}, det |-> <<>>, ig_in |-> <<>>, ig_pose |-> <<>>, cnts |-> <<>>]

DetectionFields == {"detects_obstacles", "obstacle_loc", "obstacle_center"}

DetectObstaclesClearing(cam, h, array) ==
    CHOOSE o \in
        { IF r # <<>>
          THEN [cam |-> [cam EXCEPT !.obstacle_loc = Alloc(h),
                                    !.obstacle_center = <<r[2], r[3]>>,
                                    !.detects_obstacles = TRUE],
                heap |-> Store(h, Alloc(h), NdArray("int32", Reshape(r[1]))),
                written |-> DetectionFields,
                det |-> <<NdArray("int32", Reshape(r[1]))>>]
          ELSE [cam |-> [cam EXCEPT !.detects_obstacles = FALSE, !.obstacle_loc = 0,
                                    !.obstacle_center = <<>>],
                heap |-> h,
                written |-> DetectionFields,
                det |-> <<>>] :
          r \in {FindColor(array.cnts)} } : TRUE

\* detect_obstacles: the camera, the heap, the fields assigned and the
\* contour stored.  find_color is deterministic, so its two calls on the
\* same array (lines 118 and 119) return the same value r.
DetectObstacles(cam, h, array) ==
    CHOOSE o \in
        { IF r # <<>>
          THEN LET c == Reshape(r[1])
                   cx == r[2]
                   cy == r[3]
                   id == Alloc(h)
               IN  [cam |-> [cam EXCEPT !.obstacle_loc = id,
                                        !.obstacle_center = <<cx, cy>>,
                                        !.detects_obstacles = TRUE],
                    heap |-> Store(h, id, NdArray("int32", c)),
                    written |-> DetectionFields,
                    det |-> <<NdArray("int32", c)>>]
          ELSE [cam |-> [cam EXCEPT !.detects_obstacles = FALSE],
                heap |-> h,
                written |-> {"detects_obstacles"},
                det |-> <<>>] :
          r \in {FindColor(array.cnts)} } : TRUE

\* get_processed_view
GetProcessedView(cam, h, pose, scene) ==
    CHOOSE o \in
        { IF raw.err # "ok"
          THEN [err |-> raw.err, cam |-> cam, heap |-> h, written |-> {}, det |-> <<>>,
                cnts |-> <<>>]
          ELSE CHOOSE t \in
                 { [err |-> "ok", cam |-> d.cam, heap |-> d.heap, written |-> d.written,
                    det |-> d.det, cnts |-> <<raw.img.cnts>>] :
                   d \in { LET surface == raw.img
                               array == IntoArray(surface)
                               masked_image == IntoColorMask(array)
                           IN  DetectObstacles(IntoSurface(cam, masked_image), h,
                                               masked_image) } } : TRUE :
          raw \in {GetRawView(cam, pose, scene)} } : TRUE

\* assignment into an integer array truncates; a float array keeps the value
Cast(dtype, x) ==
    CHOOSE r \in
        { IF dtype = "int32" /\ v[2] = 0
          THEN Num(IF v[1] < 0 THEN -((-v[1]) \div v[3]) ELSE v[1] \div v[3])
          ELSE v :
          v \in {x} } : TRUE

\* lines 182-187 on one row of the array behind the flipped view: view
\* column 1 is column 0 of the array and conversely
FlipShift(dtype, box_view, p) ==
    <<Cast(dtype, Add(Cast(dtype, Sub(Num(box_view), p[1])), Num(100))),
      Cast(dtype, Sub(p[2], Frac(box_view, 2)))>>

\* lines 190-201 on one row r of the array: the flipped view's row is
\* <<r[2], r[1]>>
Project(r, pose) ==
    LET theta == pose[3]
        rot_array == << <<Cos(-theta), Sin(-theta)>>, <<Neg(Sin(-theta)), Cos(-theta)>> >>
        v0 == r[2]
        v1 == r[1]
    IN  <<Div(Add(Add(Mul(v0, rot_array[1][1]), Mul(v1, rot_array[2][1])),
                  Mul(pose[1], Num(200))), Num(200)),
          Div(Add(Add(Mul(v0, rot_array[1][2]), Mul(v1, rot_array[2][2])),
                  Mul(pose[2], Num(200))), Num(200))>>

\* into_global.  np.fliplr returns a view, so the three column assignments
\* of lines 183-187 write into the array obstacle_loc refers to; the matrix
\* product and the division make new arrays.
IntoGlobal(cam, h, pose) ==
    IF cam.obstacle_loc = 0
    THEN [err |-> "ValueError", cam |-> cam, heap |-> h, ig_in |-> <<>>]
    ELSE CHOOSE o \in
           { CHOOSE t \in
               { [err |-> "ok",
                  cam |-> [cam EXCEPT !.obstacle_loc = Alloc(h)],
                  heap |-> Store(Store(h, cam.obstacle_loc, NdArray(a.dtype, written)),
                                 Alloc(h),
                                 NdArray("float64",
                                         [i \in 1..Len(written) |->
                                             Project(written[i], pose)])),
                  ig_in |-> <<a>>] :
                 written \in { [i \in 1..Len(a.rows) |->
                                  FlipShift(a.dtype, cam.box_view, a.rows[i])] } } : TRUE :
             a \in {h[cam.obstacle_loc]} } : TRUE

IntoSamUnchecked(cam) ==
    [err |-> "ok", cam |-> cam @@ [annotated_image |-> cam.camera_view]]

\* into_sam reads self.mask_generator and self.camera_view_array
IntoSam(cam) ==
    IF "mask_generator" \notin DOMAIN cam \/ "camera_view_array" \notin DOMAIN cam
    THEN [err |-> "AttributeError", cam |-> cam]
    ELSE [err |-> "ok", cam |-> cam @@ [annotated_image |-> cam.camera_view_array]]

(***************************************************************************)
(* Robot (robot.py)                                                        *)
(***************************************************************************)
RobotInit ==
    [pose |-> <<Num(1), Num(1), 2>>,
     vel |-> <<0, 0>>,
     detects_obstacles |-> FALSE,
     obstacle_loc |-> 0,
     rep_weight |-> Frac(2, 10),
     radius |-> Frac(15, 10)]

Outcome(err, rob, cam, h, tr) ==
    [err |-> err, robot |-> rob, cam |-> cam, heap |-> h, trace |-> tr]

\* what one run of the perception pipeline assigned and stored
Ran(g) == [NoWrites EXCEPT !.written = g.written, !.det = g.det, !.cnts = g.cnts]

\* lines 92-94 with the copy of line 94 made before the call of line 93
RepublishCopyFirst(rob, g) ==
    CHOOSE o \in
        { Outcome(p.err,
                  [rob EXCEPT !.detects_obstacles = g.cam.detects_obstacles,
                              !.obstacle_loc = g.cam.obstacle_loc],
                  p.cam, p.heap,
                  [Ran(g) EXCEPT !.ig_in = p.ig_in, !.ig_pose = <<rob.pose>>]) :
          p \in {IntoGlobal(g.cam, g.heap, rob.pose)} } : TRUE

\* lines 92-94: the flag, into_global at the robot's pose, the location
Republish(rob, g) ==
    CHOOSE o \in
        { Outcome(p.err,
                  [rob EXCEPT !.detects_obstacles = g.cam.detects_obstacles,
                              !.obstacle_loc = p.cam.obstacle_loc],
                  p.cam, p.heap,
                  [Ran(g) EXCEPT !.ig_in = p.ig_in, !.ig_pose = <<rob.pose>>]) :
          p \in {IntoGlobal(g.cam, g.heap, rob.pose)} } : TRUE

\* the robot copies the location before the camera projects it
UpdateCameraCopyFirst(rob, cam, h, scene) ==
    CHOOSE o \in
        { IF g.err # "ok" THEN Outcome(g.err, rob, cam, h, NoWrites)
          ELSE IF g.cam.detects_obstacles THEN RepublishCopyFirst(rob, g)
          ELSE Outcome("ok", [rob EXCEPT !.detects_obstacles = FALSE], g.cam, g.heap,
                       Ran(g)) :
          g \in {GetProcessedView(cam, h, rob.pose, scene)} } : TRUE

\* into_global called whether or not the camera detects
UpdateCameraUnguarded(rob, cam, h, scene) ==
    CHOOSE o \in
        { IF g.err # "ok" THEN Outcome(g.err, rob, cam, h, NoWrites)
          ELSE Republish(rob, g) :
          g \in {GetProcessedView(cam, h, rob.pose, scene)} } : TRUE

\* the location cleared when nothing is detected
UpdateCameraClearing(rob, cam, h, scene) ==
    CHOOSE o \in
        { IF g.err # "ok" THEN Outcome(g.err, rob, cam, h, NoWrites)
          ELSE IF g.cam.detects_obstacles THEN Republish(rob, g)
          ELSE Outcome("ok",
                       [rob EXCEPT !.detects_obstacles = FALSE, !.obstacle_loc = 0],
                       g.cam, g.heap, Ran(g)) :
          g \in {GetProcessedView(cam, h, rob.pose, scene)} } : TRUE

\* lines 87-100 of Robot.step, process_camera being True; rob.pose is the
\* pose just integrated
UpdateCamera(rob, cam, h, scene) ==
    CHOOSE o \in
        { IF g.err # "ok" THEN Outcome(g.err, rob, cam, h, NoWrites)
          ELSE IF g.cam.detects_obstacles THEN Republish(rob, g)
          ELSE Outcome("ok", [rob EXCEPT !.detects_obstacles = FALSE], g.cam, g.heap,
                       Ran(g)) :
          g \in {GetProcessedView(cam, h, rob.pose, scene)} } : TRUE

\* Robot.step
RobotStep(rob, cam, h, dt, scene) ==
    CHOOSE o \in
        { IF k.err # "ok" THEN Outcome(k.err, rob, cam, h, NoWrites)
          ELSE UpdateCamera([rob EXCEPT !.pose = k.pose], cam, h, scene) :
          k \in {Kinematics(rob.pose, rob.vel, dt)} } : TRUE

\* arrays no field refers to any more are reclaimed
Collect(h, rob, cam) ==
    [i \in DOMAIN h \cap {rob.obstacle_loc, cam.obstacle_loc} |-> h[i]]

(***************************************************************************)
(* Inputs                                                                  *)
(***************************************************************************)
Rect(x, y, w, h) ==
    << <<<<x, y>>>>, <<<<x + w, y>>>>, <<<<x + w, y + h>>>>, <<<<x, y + h>>>> >>

\* a 200 x 100 rectangle with a corner of area 1 cut off
Notched(x, y) ==
    << <<<<x, y>>>>, <<<<x + 200, y>>>>, <<<<x + 200, y + 100>>>>,
       <<<<x + 1, y + 100>>>>, <<<<x, y + 98>>>> >>

Area1000 == Rect(10, 10, 25, 40)
Area1001 == Rect(20, 30, 7, 143)
Area19999 == Notched(10, 10)
Area20000 == Rect(10, 10, 200, 100)

Scenes ==
    { <<>>, <<Area1000>>, <<Area1001>>, <<Area19999>>, <<Area20000>>,
      <<Area1000, Area19999, Area1001>> }

StepScenes == { <<>>, <<Area1001>>, <<Area1000, Area19999, Area1001>> }

CallScenes == { <<>>, <<Area1001>> }

Vels == { <<0, 0>>, <<1, 1>>, <<2, 1>>, <<1, 2>> }

TimeSteps == { DefaultTimeStep, TimeStep(Num(1), 0), TimeStep(Zero, 1) }

Worlds ==
    { World(<<Obstacle("rock", <<400, 1900>>), Obstacle("crate", <<420, 1900>>)>>) }

(***************************************************************************)
(* State machine                                                           *)
(***************************************************************************)
Init ==
    /\ \E w \in Worlds : camera = CameraInit(w)
    /\ robot = RobotInit
    /\ heap = << >>
    /\ lastOp = "init"
    /\ result = "ok"
    /\ trace = NoWrites
    /\ log = << >>
    /\ nsteps = 0
    /\ ncalls = 0

\* what the last steps did: the pose before and after, the inputs, the
\* exception raised ("ok" when step returned) and the robot's flag
Entry(before, vel, dt, after, err, detected) ==
    [before |-> before, vel |-> vel, dt |-> dt, after |-> after, err |-> err,
     detected |-> detected]

\* one tick of the caller's loop: robot.vel = v, then robot.step(dt)
Step(v, dt, scene) ==
    /\ nsteps + ncalls < MaxOps
    /\ OnLattice(v, dt)
    /\ \E o \in {RobotStep([robot EXCEPT !.vel = v], camera, heap, dt, scene)} :
       LET e == Entry(robot.pose, v, dt, o.robot.pose, o.err, o.robot.detects_obstacles)
       IN  /\ robot' = o.robot
           /\ camera' = o.cam
           /\ heap' = Collect(o.heap, o.robot, o.cam)
           /\ result' = o.err
           /\ trace' = o.trace
           /\ log' = IF log = << >> THEN <<e>> ELSE <<log[Len(log)], e>>
    /\ lastOp' = "step"
    /\ nsteps' = nsteps + 1
    /\ UNCHANGED ncalls

Call(op, err, cam, h, tr) ==
    /\ camera' = cam
    /\ heap' = Collect(h, robot, cam)
    /\ result' = err
    /\ trace' = tr
    /\ lastOp' = op
    /\ ncalls' = ncalls + 1
    /\ UNCHANGED <<robot, log, nsteps>>

CallGetRawView(scene) ==
    /\ nsteps + ncalls < MaxOps
    /\ \E r \in {GetRawView(camera, robot.pose, scene)} :
        Call("get_raw_view", r.err, camera, heap, NoWrites)

CallGetUnprocessedView(scene) ==
    /\ nsteps + ncalls < MaxOps
    /\ \E r \in {GetRawView(camera, robot.pose, scene)} :
        Call("get_unprocessed_view", r.err,
             IF r.err = "ok" THEN [camera EXCEPT !.camera_view = r.img] ELSE camera,
             heap, NoWrites)

CallGetProcessedView(scene) ==
    /\ nsteps + ncalls < MaxOps
    /\ \E g \in {GetProcessedView(camera, heap, robot.pose, scene)} :
        Call("get_processed_view", g.err, g.cam, g.heap,
             Ran(g))

CallDetectObstacles(scene) ==
    /\ nsteps + ncalls < MaxOps
    /\ \E d \in {DetectObstacles(camera, heap, Image("ndarray", TRUE, Zero, Zero, 0, scene))} :
        Call("detect_obstacles", "ok", d.cam, d.heap,
             [NoWrites EXCEPT !.written = d.written, !.det = d.det, !.cnts = <<scene>>])

CallIntoGlobal ==
    /\ nsteps + ncalls < MaxOps
    /\ \E p \in {IntoGlobal(camera, heap, robot.pose)} :
        Call("into_global", p.err, p.cam, p.heap,
             [NoWrites EXCEPT !.ig_in = p.ig_in, !.ig_pose = <<robot.pose>>])

CallIntoSam ==
    /\ nsteps + ncalls < MaxOps
    /\ \E r \in {IntoSam(camera)} :
        Call("into_sam", r.err, r.cam, heap, NoWrites)

Next ==
    \/ \E v \in Vels, dt \in TimeSteps, scene \in StepScenes : Step(v, dt, scene)
    \/ \E scene \in CallScenes : CallGetRawView(scene)
    \/ \E scene \in CallScenes : CallGetUnprocessedView(scene)
    \/ \E scene \in CallScenes : CallGetProcessedView(scene)
    \/ \E scene \in Scenes : CallDetectObstacles(scene)
    \/ CallIntoGlobal
    \/ CallIntoSam

Spec == Init /\ [][Next]_vars

(***************************************************************************)
(* Properties                                                              *)
(***************************************************************************)
Last == log[Len(log)]

StepReturned == lastOp = "step" /\ result = "ok"

PipelineOps == {"step", "get_processed_view", "detect_obstacles"}

\* an operation that ran detect_obstacles has just returned
PipelineRan == lastOp \in PipelineOps /\ result = "ok" /\ trace.cnts # <<>>

\* no contour of the list has an area strictly between 1000 and 20000
NoneQualifies(cnts) ==
    \A i \in 1..Len(cnts) :
        ~(2 * 1000 < ContourArea2(cnts[i]) /\ ContourArea2(cnts[i]) < 2 * 20000)

\* C1: when a step that detected an obstacle is followed by a step whose view
\* has no qualifying contour, the second step leaves the robot's flag false
\* and its obstacle_loc the same array, with the same contents, as before it.
C1_StaleCarryover ==
    [][(/\ nsteps' = nsteps + 1
        /\ StepReturned
        /\ robot.detects_obstacles
        /\ robot.obstacle_loc # 0
        /\ result' = "ok"
        /\ trace'.cnts # <<>>
        /\ NoneQualifies(trace'.cnts[1]))
       => (/\ ~robot'.detects_obstacles
           /\ robot'.obstacle_loc = robot.obstacle_loc
           /\ heap'[robot'.obstacle_loc] = heap[robot.obstacle_loc])]_vars

C1_Witness ==
    /\ Len(log) = 2
    /\ ncalls = 0
    /\ log[1].err = "ok" /\ log[1].detected
    /\ StepReturned
    /\ NoneQualifies(trace.cnts[1])
    /\ ~robot.detects_obstacles
    /\ robot.obstacle_loc # 0

\* C2 as stated: every run of the perception pipeline assigns all three of
\* detects_obstacles, obstacle_loc and obstacle_center.
C2_AlwaysAllThree == PipelineRan => trace.written = DetectionFields

\* C2 amended: a run that finds a qualifying contour assigns all three
\* fields; a run that finds none assigns detects_obstacles alone and leaves
\* obstacle_loc and obstacle_center as they were.
C2_TogetherOnDetection ==
    [][((nsteps' # nsteps \/ ncalls' # ncalls) /\ PipelineRan')
       => IF camera'.detects_obstacles
          THEN /\ trace'.written = DetectionFields
               /\ camera'.obstacle_loc # 0
               /\ Len(camera'.obstacle_center) = 2
          ELSE /\ trace'.written = {"detects_obstacles"}
               /\ camera'.obstacle_loc = camera.obstacle_loc
               /\ camera'.obstacle_center = camera.obstacle_center]_vars

C2_Witness ==
    /\ PipelineRan
    /\ ~camera.detects_obstacles
    /\ camera.obstacle_loc # 0
    /\ camera.obstacle_center # <<>>

\* omega as the claim states it: (v_r - v_l) * wheel_diameter / track_width
OmegaOf(vel) == Div(Mul(Num(vel[2] - vel[1]), wheel_diameter), track_width)

\* C3: a step with equal wheel velocities v keeps the heading and moves the
\* position by v * wheel_diameter * dt along (cos theta, sin theta); from
\* pose (0, 0, 0) with vel (1, 1) and dt = 1 the pose becomes (0.2, 0, 0).
C3_StraightLine ==
    /\ log # <<>> /\ Last.vel[1] = Last.vel[2] =>
        LET d == Mul(Mul(Num(Last.vel[1]), wheel_diameter), Last.dt.s)
            theta == Last.before[3]
        IN  /\ Last.err # "ZeroDivisionError"
            /\ robot.pose = <<Add(Last.before[1], Mul(d, Cos(theta))),
                              Add(Last.before[2], Mul(d, Sin(theta))),
                              theta>>
    /\ Kinematics(<<Zero, Zero, 0>>, <<1, 1>>, TimeStep(Num(1), 0)).pose
         = <<Frac(2, 10), Zero, 0>>

C3_Witness ==
    /\ log # <<>>
    /\ Last.vel = <<1, 1>>
    /\ Last.dt = TimeStep(Num(1), 0)
    /\ robot.pose # Last.before

\* C4: a step with nonzero omega turns the heading by omega * dt, and two
\* steps of dt / 2 with the same wheel velocities end in the pose that one
\* step of dt from the same start ends in.
C4_ArcConsistency ==
    /\ log # <<>> /\ OmegaOf(Last.vel) # Zero =>
        robot.pose[3] = Last.before[3] + TurnAngle(OmegaOf(Last.vel), Last.dt)[1]
    /\ (/\ Len(log) = 2
        /\ log[1].vel = log[2].vel
        /\ log[1].dt = log[2].dt
        /\ OmegaOf(log[1].vel) # Zero)
       => robot.pose = Kinematics(log[1].before, log[1].vel, DoubleStep(log[1].dt)).pose

C4_Witness ==
    /\ Len(log) = 2
    /\ log[1].vel = <<2, 1>> /\ log[2].vel = <<2, 1>>
    /\ log[1].dt = TimeStep(Zero, 1) /\ log[2].dt = TimeStep(Zero, 1)
    /\ robot.pose[3] = 0
    /\ robot.pose # log[1].before

\* C5: with a single contour in the image, detect_obstacles sets
\* detects_obstacles exactly when 1000 < area < 20000: areas 1000 and 20000
\* are not detected, areas 1001 and 19999 are.
C5_ExclusiveBounds ==
    /\ ContourArea2(Area1000) = 2 * 1000
    /\ ContourArea2(Area1001) = 2 * 1001
    /\ ContourArea2(Area19999) = 2 * 19999
    /\ ContourArea2(Area20000) = 2 * 20000
    /\ (PipelineRan /\ Len(trace.cnts[1]) = 1) =>
        LET c == trace.cnts[1][1]
        IN  /\ camera.detects_obstacles
                <=> (2 * 1000 < ContourArea2(c) /\ ContourArea2(c) < 2 * 20000)
            /\ c \in {Area1000, Area20000} => ~camera.detects_obstacles
            /\ c \in {Area1001, Area19999} => camera.detects_obstacles

C5_Witness ==
    /\ lastOp = "detect_obstacles"
    /\ trace.cnts = << <<Area1000>> >>
    /\ ~camera.detects_obstacles

\* C6: the canvas is the 3570 x 2500 surface with the ground and then the
\* obstacles, in collection order, painted on it, whatever was called since
\* construction.
C6_CanvasFixed ==
    LET w == camera.world
    IN  /\ w \in Worlds
        /\ camera.display.size = <<3570, 2500>>
        /\ camera.display.blits =
              << <<w.ground, w.ground_pos>> >> \o
              [i \in 1..Len(w.obstacles) |->
                  <<w.obstacles[i].surface, w.obstacles[i].surf_pos>>]

C6_Witness ==
    /\ nsteps >= 1
    /\ ncalls >= 1
    /\ lastOp = "get_processed_view" /\ result = "ok"
    /\ camera.camera_view # BlankView
    /\ camera.detects_obstacles

\* C7: into_sam on a camera built by the constructor raises an
\* AttributeError, and no annotated_image is ever set.
C7_IntoSamFails ==
    /\ "annotated_image" \notin DOMAIN camera
    /\ lastOp = "into_sam" => result = "AttributeError"

C7_Witness ==
    /\ lastOp = "into_sam"
    /\ nsteps >= 1
    /\ camera.camera_view # BlankView

\* C8: no step raises ZeroDivisionError, and for every pair of wheel
\* velocities a nonzero omega means the linear velocities differ (the
\* second conjunct does not depend on the state; it is evaluated once, in
\* the initial state).
C8_NoDivisionByZero ==
    /\ lastOp = "step" => result # "ZeroDivisionError"
    /\ nsteps + ncalls = 0 =>
       \A v \in (-MaxVel..MaxVel) \X (-MaxVel..MaxVel) :
          OmegaOf(v) # Zero =>
              Mul(Num(v[2]), wheel_diameter) # Mul(Num(v[1]), wheel_diameter)

C8_Witness ==
    /\ lastOp = "step"
    /\ log # <<>>
    /\ OmegaOf(Last.vel) # Zero
    /\ robot.pose # Last.before

\* the world point of the view pixel p for a robot at `pose`
GlobalPoint(p, pose) ==
    LET u == Sub(p[2], Num(200))
        v == Sub(Num(500), p[1])
        c == Cos(pose[3])
        s == Sin(pose[3])
    IN  <<Add(pose[1], Div(Add(Mul(u, c), Mul(v, s)), Num(200))),
          Add(pose[2], Div(Sub(Mul(v, c), Mul(u, s)), Num(200)))>>

\* C9: after a step that returns, the robot's flag equals the camera's; the
\* view was cropped at the pose the step computed; and when the flag is true
\* the robot's obstacle_loc is the camera's array, the projection by
\* into_global, at that pose, of the contour detected in the step.
C9_StepRepublishes ==
    StepReturned =>
        /\ robot.detects_obstacles = camera.detects_obstacles
        /\ camera.camera_view.theta = robot.pose[3]
        /\ camera.camera_view.left =
              Sub(Add(Mul(robot.pose[1], Num(200)), Mul(Num(300), Cos(robot.pose[3]))),
                  Num(300))
        /\ robot.detects_obstacles =>
              /\ robot.obstacle_loc # 0
              /\ robot.obstacle_loc = camera.obstacle_loc
              /\ trace.ig_pose = <<robot.pose>>
              /\ trace.det # <<>>
              /\ heap[robot.obstacle_loc] =
                    NdArray("float64",
                            [i \in 1..Len(trace.det[1].rows) |->
                                GlobalPoint(trace.det[1].rows[i], robot.pose)])

C9_Witness ==
    /\ StepReturned
    /\ Len(log) = 2
    /\ robot.detects_obstacles
    /\ robot.pose # RobotInit.pose

\* C10: in a step, into_global reads the integer pixel contour that
\* detect_obstacles stored in that step, and is not called at all when the
\* step detects nothing.
C10_NoDoubleProjection ==
    lastOp = "step" =>
        /\ trace.ig_in # <<>> =>
              /\ trace.ig_in = trace.det
              /\ trace.ig_in[1].dtype = "int32"
        /\ (result = "ok" /\ ~camera.detects_obstacles) => trace.ig_in = <<>>

C10_Witness ==
    /\ Len(log) = 2
    /\ log[1].err = "ok" /\ log[1].detected
    /\ StepReturned
    /\ trace.ig_in # <<>>

====
